---- MODULE Spec2Model ----
(***************************************************************************)
(* ring.func_asyncio: the asyncio cache interfaces (CacheUserInterface,    *)
(* BulkInterfaceMixin) over a key-value backend reached through a storage  *)
(* adapter (CommonMixinStorage, BulkStorageMixin, AiomcacheStorage,        *)
(* AioredisStorage).                                                       *)
(*                                                                         *)
(* Every call of a sub-function is a coroutine.  A coroutine runs without  *)
(* interruption between two suspension points; it suspends at each backend *)
(* command and at each invocation of the wrapped coroutine function.  One  *)
(* model step is one resumption: the reply of the backend (or the          *)
(* completion of the computation) and the code that runs up to the next    *)
(* suspension point.                                                       *)
(***************************************************************************)
EXTENDS Integers, Sequences, FiniteSets, Bags, TLC

(* ------------------------------ bounds -------------------------------- *)

\* Number of single-item calls that may be in flight or finished.
NumCalls == 2
\* Longest args_list handed to a bulk sub-function.
MaxLen == 2
\* Number of functions a factory is applied to.
MaxWraps == 2

(* ------------------------------ domains ------------------------------- *)

Calls == 1..NumCalls

\* Argument-sets of the wrapped function.
Args == {"a1", "a2"}
\* Values the wrapped coroutine may return; "None" is Python's None, which
\* is also the miss_value every factory of the module configures.
Values == {"None", "v1", "v2"}

\* Values a caller hands to set.
SetValues == {"v2"}

None == "None"
\* fbase.NotFound, raised by get_value and used as the marker of
\* get_many_values.
NotFound == <<"NotFound">>
\* Errors that are not NotFound: a failure of the wrapped coroutine, a
\* failure of the backend client, and Python's NotImplementedError.
ComputeError == <<"ComputeError">>
BackendError == <<"BackendError">>
NotImplementedError == <<"NotImplementedError">>
TypeError == <<"TypeError">>
\* The outcome of an awaited call: a value, or a raised exception.
Ok(value) == <<"ok", value>>
Raise(error) == <<"raise", error>>
IsRaise(r) == r[1] = "raise"
\* The reply of the backend client for a key it does not hold (Python None).
Nil == <<>>

Adapters == {"aiomcache", "aioredis"}

\* A time to live handed to a factory as expire, and the default argument
\* (Ellipsis) of the storage methods that take one.
SomeExpire == "expire"
Ellipsis == "..."

(* ------------------- collaborators outside the module ------------------ *)

\* BaseUserInterface.key: the cache key of one argument-set.
KeyPrefix == "ring"
Key(args) == <<KeyPrefix, args>>
\* BaseUserInterface.key_many: one key per argument-set, in input order.
key_many(args_list) == [i \in 1..Len(args_list) |-> Key(args_list[i])]

Keys == {Key(a) : a \in Args}

\* ring.coder: a round-trip pair.
encode(value) == <<"bytes", value>>
decode(encoded) == encoded[2]

Encoded == {encode(v) : v \in Values}

\* ring.miss_value (miss_value=None in dict, create_from, aiomcache, aioredis).
miss_value == None
\* The private miss_value = object() of get_or_update_many.
Sentinel == "<object>"
\* The slot of a gathered coroutine that has not completed yet.
Pending == "<pending>"
\* Entries an earlier call may have left in the backend.
InitialEntries == {Nil, encode("v1")}

(* ------------------------------- state -------------------------------- *)

VARIABLES
    adapter,     \* the storage class of the binding
    expire_default, \* ring.expire_default: None, or a time to live
    rings,       \* the factory applications made so far, with their outcome
    store,       \* the backend: key -> encoded value, or Nil
    ttl,         \* the backend: key -> whether the entry carries a time to live
    futures,     \* expire commands scheduled with ensure_future and not yet
                 \* applied: a bag of pairs <<call, key>>
    calls,       \* per call: the coroutine's locals, position and history
    lastWriter   \* per key: the call whose write or delete was applied last
                 \* (0: none yet, -1: the backend itself or another client)

vars == <<adapter, expire_default, rings, store, ttl, futures, calls,
          lastWriter>>

\* What the factory fixed when the binding was made.
config == <<adapter, expire_default, rings>>

\* A call that has not been made yet.
Idle ==
    [op |-> "idle", pc |-> "idle", args |-> "-", key |-> <<>>,
     result |-> "-", outcome |-> "pending", ret |-> "-",
     args_list |-> <<>>, keys |-> <<>>, results |-> <<>>,
     miss_indices |-> <<>>, new_results |-> <<>>, pending |-> {},
     tasks |-> <<>>, snapshot |-> <<>>, computed |-> {},
     nExec |-> 0, nGet |-> 0, nSet |-> 0, nGetMany |-> 0, nSetMany |-> 0,
     nTouch |-> 0, touched |-> <<>>, value_list |-> <<>>,
     readFromMany |-> <<>>, completed |-> <<>>,
     execDone |-> 0, written |-> <<>>, writeEarly |-> FALSE,
     observed |-> "-", readFrom |-> 0, after |-> {}]

\* The coroutine returns value / ends with an exception.
Return(s, value) == [s EXCEPT !.pc = "done", !.outcome = "ok", !.ret = value]
Throw(s, error) == [s EXCEPT !.pc = "done", !.outcome = "error", !.ret = error]

\* The wrapped coroutine function is invoked once (self.execute).
execute(s) == [s EXCEPT !.pc = "execute", !.nExec = @ + 1]

(* --------------------------- storage adapter -------------------------- *)

\* AiomcacheStorage.get_value / AioredisStorage.get_value on the backend's
\* reply: None becomes NotFound.
get_value(key) ==
    IF store[key] = Nil THEN Raise(NotFound) ELSE Ok(store[key])

\* CommonMixinStorage.get: get_value, then decode.
storage_get(key) ==
    LET value == get_value(key)
    IN  IF IsRaise(value) THEN value ELSE Ok(decode(value[2]))

\* CommonMixinStorage.set up to its suspension: the value is encoded and the
\* backend's set command is issued.
storage_set(s, key, value) ==
    [s EXCEPT !.pc = "storage.set", !.nSet = @ + 1,
              !.written = <<<<key, encode(value)>>>>,
              !.writeEarly = @ \/ (s.execDone < s.nExec)]

\* A faulty set_value: the backend's add, which keeps an entry it holds.
set_value_add(st, key, encoded) ==
    IF st[key] = Nil THEN [st EXCEPT ![key] = encoded] ELSE st

\* set_value: the backend applies the set command.
set_value(st, key, encoded) == [st EXCEPT ![key] = encoded]

\* delete_value: the backend applies the delete command.
delete_value(st, key) == [st EXCEPT ![key] = Nil]

\* The reply of the backend's delete: the number of entries removed
\* (aioredis), whether an entry was removed (aiomcache).
delete_reply(key) ==
    IF adapter = "aioredis" THEN (IF store[key] # Nil THEN 1 ELSE 0)
    ELSE store[key] # Nil

\* The reply of the backend's set once it is applied.
set_reply == TRUE

\* CommonMixinStorage.get up to its suspension: the backend's get is issued.
storage_get_issue(s) == [s EXCEPT !.pc = "storage.get", !.nGet = @ + 1]

\* get_many_values on the backend's multi-key reply: each None becomes the
\* NotFound marker.
get_many_values(keys) ==
    [i \in 1..Len(keys) |->
        IF store[keys[i]] = Nil THEN NotFound ELSE store[keys[i]]]

\* A faulty storage_get_many: an entry that decodes to None counts as not
\* found.
storage_get_many_falsy(keys, miss) ==
    LET values == get_many_values(keys)
    IN  [i \in 1..Len(values) |->
            IF values[i] # NotFound /\ decode(values[i]) # None
            THEN decode(values[i]) ELSE miss]

\* BulkStorageMixin.get_many: every found value decoded, every NotFound
\* replaced by the miss_value of the caller.
storage_get_many(keys, miss) ==
    LET values == get_many_values(keys)
    IN  [i \in 1..Len(values) |->
            IF values[i] # NotFound THEN decode(values[i]) ELSE miss]

\* BulkStorageMixin.get_many up to its suspension.
storage_get_many_issue(s) ==
    [s EXCEPT !.pc = "storage.get_many", !.nGetMany = @ + 1]

\* A faulty set_many_values: the aiomcache adapter writes the pairs as the
\* aioredis adapter does instead of raising.
set_many_values_emulated(s, keys, values) ==
    LET pairs == [i \in 1..Len(keys) |-> <<keys[i], values[i]>>]
    IN  [s EXCEPT !.pc = "storage.set_many", !.written = pairs]

\* A faulty set_many_values: with no pair to set the aiomcache adapter
\* returns instead of raising.
set_many_values_skip_empty(s, keys, values) ==
    LET pairs == [i \in 1..Len(keys) |-> <<keys[i], values[i]>>]
    IN  IF adapter = "aiomcache" /\ pairs # <<>>
        THEN Throw([s EXCEPT !.written = pairs], NotImplementedError)
        ELSE [s EXCEPT !.pc = "storage.set_many", !.written = pairs]

\* AiomcacheStorage.set_many_values raises; AioredisStorage.set_many_values
\* issues one mset of the interleaved keys and values.  The field written
\* keeps the pairs the adapter was handed.
set_many_values(s, keys, values) ==
    LET pairs == [i \in 1..Len(keys) |-> <<keys[i], values[i]>>]
    IN  IF adapter = "aiomcache"
        THEN Throw([s EXCEPT !.written = pairs], NotImplementedError)
        ELSE [s EXCEPT !.pc = "storage.set_many", !.written = pairs]

\* BulkStorageMixin.set_many: every value encoded, then set_many_values.
storage_set_many(s, keys, values) ==
    set_many_values(
        [s EXCEPT !.nSetMany = @ + 1,
                  !.writeEarly = @ \/ (s.execDone < s.nExec)],
        keys, [i \in 1..Len(values) |-> encode(values[i])])

\* A faulty mset: of several pairs of the same key the first one is kept.
mset_first(st, pairs) ==
    [k \in Keys |->
        IF \E i \in 1..Len(pairs) : pairs[i][1] = k
        THEN pairs[CHOOSE i \in 1..Len(pairs) :
                      /\ pairs[i][1] = k
                      /\ \A h \in 1..(i - 1) : pairs[h][1] # k][2]
        ELSE st[k]]

\* The backend applies mset: the pairs in order, a later pair of the same key
\* overwriting an earlier one.
RECURSIVE mset(_, _)
mset(st, pairs) ==
    IF pairs = <<>> THEN st
    ELSE mset([st EXCEPT ![Head(pairs)[1]] = Head(pairs)[2]], Tail(pairs))

\* The keys of the pairs handed to set_many_values.
KeysOf(pairs) == {pairs[i][1] : i \in 1..Len(pairs)}

\* AioredisStorage.set_many_values after the mset: with a time to live, one
\* expire command per position of keys (a key that occurs twice gets two) is
\* scheduled with asyncio.ensure_future and the coroutine returns without
\* awaiting them.
ensure_future_expire(fut, c, keys, expire) ==
    IF expire # None
    THEN fut (+) [p \in {<<c, keys[i]>> : i \in 1..Len(keys)} |->
                    Cardinality({i \in 1..Len(keys) : keys[i] = p[2]})]
    ELSE fut

(* ------------------------- CacheUserInterface ------------------------- *)

\* A faulty get_result: NotFound is not caught.
get_result_raises(s, r) ==
    IF IsRaise(r) THEN Throw(s, r[2])
    ELSE Return([s EXCEPT !.result = r[2]], r[2])

\* CacheUserInterface.get after storage.get: NotFound becomes miss_value.
get_result(s, r) ==
    IF IsRaise(r) /\ r[2] # NotFound THEN Throw(s, r[2])
    ELSE LET result == IF IsRaise(r) THEN miss_value ELSE r[2]
         IN  Return([s EXCEPT !.result = result], result)

\* A faulty update_result: the result is returned without being set.
update_result_unset(s, r) ==
    IF IsRaise(r) THEN Throw(s, r[2])
    ELSE Return([s EXCEPT !.result = r[2], !.execDone = @ + 1], r[2])

\* CacheUserInterface.update after execute: the result is set.
update_result(s, r) ==
    IF IsRaise(r) THEN Throw(s, r[2])
    ELSE storage_set([s EXCEPT !.result = r[2], !.execDone = @ + 1],
                     s.key, r[2])

\* A faulty get_or_update_result: a hit is computed again.
get_or_update_result_recompute(s, r) ==
    IF IsRaise(r) /\ r[2] # NotFound THEN Throw(s, r[2])
    ELSE execute(s)

\* A faulty get_or_update_result: every error of storage.get counts as a
\* miss.
get_or_update_result_catch_all(s, r) ==
    IF IsRaise(r) THEN execute(s)
    ELSE Return([s EXCEPT !.result = r[2]], r[2])

\* CacheUserInterface.get_or_update after storage.get: a hit is returned,
\* NotFound invokes the wrapped coroutine.
get_or_update_result(s, r) ==
    IF IsRaise(r) /\ r[2] # NotFound THEN Throw(s, r[2])
    ELSE IF IsRaise(r) THEN execute(s)
    ELSE Return([s EXCEPT !.result = r[2]], r[2])

\* A faulty get_or_update_executed: the result is returned without being
\* set.
get_or_update_executed_unset(s, r) ==
    IF IsRaise(r) THEN Throw(s, r[2])
    ELSE Return([s EXCEPT !.result = r[2], !.execDone = @ + 1], r[2])

\* CacheUserInterface.get_or_update after execute: the result is set.
get_or_update_executed(s, r) ==
    IF IsRaise(r) THEN Throw(s, r[2])
    ELSE storage_set([s EXCEPT !.result = r[2], !.execDone = @ + 1],
                     s.key, r[2])

(* ------------------------------ actions ------------------------------- *)

\* Calls are numbered in the order they are made.
CanCall(c) ==
    /\ calls[c].pc = "idle"
    /\ IF c = 1 THEN TRUE ELSE calls[c - 1].pc # "idle"

\* The locals of a call made now with these arguments.
Begin(op, args) ==
    [Idle EXCEPT !.op = op, !.args = args, !.key = Key(args),
                 !.after = {d \in Calls : calls[d].pc = "done"}]

\* What the backend's get may answer: the stored entry, or a failure.
GetReplies(key) == {storage_get(key), Raise(BackendError)}
\* What the wrapped coroutine may end with.
ExecReplies == {Ok(v) : v \in Values} \cup {Raise(ComputeError)}

\* Ghost: the reply of storage.get as seen by the call, the backend's entry
\* at that moment and the call that wrote it.
Observe(s, r) ==
    [s EXCEPT !.observed = IF ~IsRaise(r) THEN "hit"
                           ELSE IF r[2] = NotFound THEN "miss" ELSE "error",
              !.snapshot = <<store[s.key]>>,
              !.readFrom = lastWriter[s.key]]

\* Ghost: the value the j-th invocation of the wrapped coroutine returned,
\* and the order in which the invocations completed.
Computed(s, j, r) ==
    [s EXCEPT !.computed = IF IsRaise(r) THEN @ ELSE @ \cup {<<j, r[2]>>},
              !.completed = IF IsRaise(r) THEN @ ELSE Append(@, j)]

\* CacheUserInterface.get
get(c) ==
    \/ /\ CanCall(c)
       /\ \E args \in Args :
            calls' = [calls EXCEPT ![c] = storage_get_issue(Begin("get", args))]
       /\ UNCHANGED <<config, store, ttl, futures, lastWriter>>
    \/ /\ calls[c].op = "get" /\ calls[c].pc = "storage.get"
       /\ \E r \in GetReplies(calls[c].key) :
            calls' = [calls EXCEPT ![c] = get_result(Observe(@, r), r)]
       /\ UNCHANGED <<config, store, ttl, futures, lastWriter>>

\* The backend answers the set command of call c: applied, or failed.
SetReply(c) ==
    LET s == calls[c]
        key == s.written[1][1]
    IN  \/ /\ store' = set_value(store, key, s.written[1][2])
           /\ ttl' = [ttl EXCEPT ![key] = expire_default # None]
           /\ lastWriter' = [lastWriter EXCEPT ![key] = c]
           /\ calls' = [calls EXCEPT ![c] = Return(s, s.result)]
           /\ UNCHANGED futures
        \/ /\ calls' = [calls EXCEPT ![c] = Throw(s, BackendError)]
           /\ UNCHANGED <<store, ttl, futures, lastWriter>>

\* CacheUserInterface.update
update(c) ==
    \/ /\ CanCall(c)
       /\ \E args \in Args :
            calls' = [calls EXCEPT ![c] = execute(Begin("update", args))]
       /\ UNCHANGED <<config, store, ttl, futures, lastWriter>>
    \/ /\ calls[c].op = "update" /\ calls[c].pc = "execute"
       /\ \E r \in ExecReplies :
            calls' = [calls EXCEPT ![c] = update_result(Computed(@, 1, r), r)]
       /\ UNCHANGED <<config, store, ttl, futures, lastWriter>>
    \/ /\ calls[c].op = "update" /\ calls[c].pc = "storage.set"
       /\ SetReply(c)
       /\ UNCHANGED config

\* CacheUserInterface.get_or_update
get_or_update(c) ==
    \/ /\ CanCall(c)
       /\ \E args \in Args :
            calls' = [calls EXCEPT
                        ![c] = storage_get_issue(Begin("get_or_update", args))]
       /\ UNCHANGED <<config, store, ttl, futures, lastWriter>>
    \/ /\ calls[c].op = "get_or_update" /\ calls[c].pc = "storage.get"
       /\ \E r \in GetReplies(calls[c].key) :
            calls' = [calls EXCEPT ![c] = get_or_update_result(Observe(@, r), r)]
       /\ UNCHANGED <<config, store, ttl, futures, lastWriter>>
    \/ /\ calls[c].op = "get_or_update" /\ calls[c].pc = "execute"
       /\ \E r \in ExecReplies :
            calls' = [calls EXCEPT
                        ![c] = get_or_update_executed(Computed(@, 1, r), r)]
       /\ UNCHANGED <<config, store, ttl, futures, lastWriter>>
    \/ /\ calls[c].op = "get_or_update" /\ calls[c].pc = "storage.set"
       /\ SetReply(c)
       /\ UNCHANGED config

\* CacheUserInterface.delete
delete(c) ==
    \/ /\ CanCall(c)
       /\ \E args \in Args :
            calls' = [calls EXCEPT
                        ![c] = [Begin("delete", args) EXCEPT !.pc = "storage.delete"]]
       /\ UNCHANGED <<config, store, ttl, futures, lastWriter>>
    \/ /\ calls[c].op = "delete" /\ calls[c].pc = "storage.delete"
       /\ \/ /\ store' = delete_value(store, calls[c].key)
             /\ ttl' = [ttl EXCEPT ![calls[c].key] = FALSE]
             /\ lastWriter' = [lastWriter EXCEPT ![calls[c].key] = c]
             /\ calls' = [calls EXCEPT
                  ![c] = Return(@, delete_reply(calls[c].key))]
          \/ /\ calls' = [calls EXCEPT ![c] = Throw(@, BackendError)]
             /\ UNCHANGED <<store, ttl, lastWriter>>
       /\ UNCHANGED futures
       /\ UNCHANGED config

\* CacheUserInterface.set: the given value is set without any computation;
\* the call returns the reply of the backend's set.
set(c) ==
    \/ /\ CanCall(c)
       /\ \E args \in Args, value \in SetValues :
            calls' = [calls EXCEPT
               ![c] = storage_set([Begin("set", args) EXCEPT !.result = set_reply],
                                  Key(args), value)]
       /\ UNCHANGED <<config, store, ttl, futures, lastWriter>>
    \/ /\ calls[c].op = "set" /\ calls[c].pc = "storage.set"
       /\ SetReply(c)
       /\ UNCHANGED config

(* ------------------------- BulkInterfaceMixin ------------------------- *)

\* asyncio.gather over execute_bulk_item for the argument-sets at indices:
\* every coroutine is created (the wrapped function invoked) at once, in the
\* order of indices; they complete in any order.
gather(s, indices) ==
    [s EXCEPT !.pc = "gather",
              !.nExec = @ + Len(indices),
              !.tasks = [j \in 1..Len(indices) |->
                            [index |-> indices[j],
                             args |-> s.args_list[indices[j]]]],
              !.new_results = [j \in 1..Len(indices) |-> Pending],
              !.pending = 1..Len(indices)]

\* A faulty gather_result: the values are kept in the order the coroutines
\* complete, the first free position taking the next value.
gather_result_as_completed(s, j, r) ==
    IF IsRaise(r) THEN Throw(s, r[2])
    ELSE LET free == CHOOSE n \in 1..Len(s.new_results) :
                        /\ s.new_results[n] = Pending
                        /\ \A h \in 1..(n - 1) : s.new_results[h] # Pending
         IN  [s EXCEPT !.new_results[free] = r[2],
                       !.pending = @ \ {j},
                       !.execDone = @ + 1]

\* One gathered coroutine ends: its value goes to its own position of the
\* gathered list; an exception ends the awaiting call.
gather_result(s, j, r) ==
    IF IsRaise(r) THEN Throw(s, r[2])
    ELSE [s EXCEPT !.new_results[j] = r[2],
                   !.pending = @ \ {j},
                   !.execDone = @ + 1]

\* A faulty gathered: the await resumes at the first completion.
gathered_first(s) == s.pc = "gather" /\ s.execDone >= 1

\* The await of asyncio.gather resumes when every coroutine has completed.
gathered(s) == s.pc = "gather" /\ s.pending = {}

\* BulkInterfaceMixin.update_many once every computation has completed.
update_many_set(s) ==
    storage_set_many([s EXCEPT !.results = s.new_results],
                     s.keys, s.new_results)

\* A faulty miss_indices_of: the caller-visible miss_value marks a miss too.
miss_indices_of_none(results) ==
    SelectSeq([i \in 1..Len(results) |-> i],
              LAMBDA i : results[i] = Sentinel \/ results[i] = miss_value)

\* BulkInterfaceMixin.get_or_update_many: the indices whose result is the
\* private miss_value, in increasing order.
miss_indices_of(results) ==
    SelectSeq([i \in 1..Len(results) |-> i],
              LAMBDA i : results[i] = Sentinel)

\* A faulty get_or_update_many_set: every key is set, hits included.
get_or_update_many_set_all(s) ==
    LET merged == [i \in 1..Len(s.results) |->
                     IF \E j \in 1..Len(s.miss_indices) : s.miss_indices[j] = i
                     THEN s.new_results[CHOOSE j \in 1..Len(s.miss_indices) :
                                            s.miss_indices[j] = i]
                     ELSE s.results[i]]
    IN  storage_set_many(s, s.keys, merged)

\* BulkInterfaceMixin.get_or_update_many once every computation of a miss
\* has completed: the new results are set under the keys of the misses.
get_or_update_many_set(s) ==
    LET new_keys == [j \in 1..Len(s.miss_indices) |-> s.keys[s.miss_indices[j]]]
    IN  storage_set_many(s, new_keys, s.new_results)

\* The indices that are the first of their argument-set in args_list.
FirstOfArgs(args_list, indices) ==
    SelectSeq(indices,
              LAMBDA i : \A h \in 1..(i - 1) : args_list[h] # args_list[i])

\* A faulty get_or_update_many_results: an argument-set that occurs at
\* several miss indices is computed for the first of them only.
get_or_update_many_results_once(s, results) ==
    LET miss == FirstOfArgs(s.args_list, miss_indices_of(results))
        g == gather([s EXCEPT !.results = results, !.miss_indices = miss], miss)
    IN  IF miss = <<>> THEN get_or_update_many_set(g) ELSE g

\* BulkInterfaceMixin.get_or_update_many after storage.get_many: the misses
\* are computed; with no miss the gather is complete at once.
get_or_update_many_results(s, results) ==
    LET miss == miss_indices_of(results)
        g == gather([s EXCEPT !.results = results, !.miss_indices = miss], miss)
    IN  IF miss = <<>> THEN get_or_update_many_set(g) ELSE g

\* A faulty get_or_update_many_merge: each new result goes to its position
\* in the list of misses.
get_or_update_many_merge_shifted(s) ==
    LET merged == [i \in 1..Len(s.results) |->
                     IF i <= Len(s.new_results) THEN s.new_results[i]
                     ELSE s.results[i]]
    IN  Return([s EXCEPT !.results = merged], merged)

\* BulkInterfaceMixin.get_or_update_many after storage.set_many: each new
\* result goes to the index of its miss.
get_or_update_many_merge(s) ==
    LET merged == [i \in 1..Len(s.results) |->
                     IF \E j \in 1..Len(s.miss_indices) : s.miss_indices[j] = i
                     THEN s.new_results[CHOOSE j \in 1..Len(s.miss_indices) :
                                            s.miss_indices[j] = i]
                     ELSE s.results[i]]
    IN  Return([s EXCEPT !.results = merged], merged)

\* Argument-set lists of a bulk call.
ArgsLists == UNION {[1..n -> Args] : n \in 1..MaxLen}

\* The locals of a bulk call made now.
BeginMany(op, args_list) ==
    [Idle EXCEPT !.op = op, !.args_list = args_list,
                 !.keys = key_many(args_list),
                 !.after = {d \in Calls : calls[d].pc = "done"}]

\* The backend answers the mset of call c: applied, or failed (as a server
\* does with an mset of no pairs).
SetManyReply(c, continue(_)) ==
    LET s == calls[c]
    IN  \/ /\ store' = mset(store, s.written)
           /\ ttl' = [k \in Keys |-> ttl[k] /\ k \notin KeysOf(s.written)]
           /\ futures' = ensure_future_expire(
                             futures, c,
                             [i \in 1..Len(s.written) |-> s.written[i][1]],
                             expire_default)
           /\ lastWriter' = [k \in Keys |->
                  IF k \in KeysOf(s.written) THEN c ELSE lastWriter[k]]
           /\ calls' = [calls EXCEPT ![c] = continue(s)]
        \/ /\ calls' = [calls EXCEPT ![c] = Throw(s, BackendError)]
           /\ UNCHANGED <<store, ttl, futures, lastWriter>>

update_many_return(s) == Return(s, s.results)

\* BulkInterfaceMixin.update_many
update_many(c) ==
    \/ /\ CanCall(c)
       /\ \E args_list \in ArgsLists :
            calls' = [calls EXCEPT
               ![c] = LET s == BeginMany("update_many", args_list)
                      IN  gather(s, [i \in 1..Len(args_list) |-> i])]
       /\ UNCHANGED <<config, store, ttl, futures, lastWriter>>
    \/ /\ calls[c].op = "update_many" /\ calls[c].pc = "gather"
       /\ \E j \in calls[c].pending, r \in ExecReplies :
            calls' = [calls EXCEPT
               ![c] = LET s == gather_result(Computed(@, j, r), j, r)
                      IN  IF gathered(s) THEN update_many_set(s) ELSE s]
       /\ UNCHANGED <<config, store, ttl, futures, lastWriter>>
    \/ /\ calls[c].op = "update_many" /\ calls[c].pc = "storage.set_many"
       /\ SetManyReply(c, update_many_return)
       /\ UNCHANGED config

\* Ghost: the backend's entries for the keys of the call at its bulk read.
ObserveMany(s) ==
    [s EXCEPT !.snapshot = [i \in 1..Len(s.keys) |-> store[s.keys[i]]]]

\* BulkInterfaceMixin.get_or_update_many
get_or_update_many(c) ==
    \/ /\ CanCall(c)
       /\ \E args_list \in ArgsLists :
            calls' = [calls EXCEPT
               ![c] = storage_get_many_issue(
                          BeginMany("get_or_update_many", args_list))]
       /\ UNCHANGED <<config, store, ttl, futures, lastWriter>>
    \/ /\ calls[c].op = "get_or_update_many"
       /\ calls[c].pc = "storage.get_many"
       /\ \/ calls' = [calls EXCEPT
               ![c] = get_or_update_many_results(
                          ObserveMany(@), storage_get_many(@.keys, Sentinel))]
          \/ calls' = [calls EXCEPT
               ![c] = Throw([@ EXCEPT !.observed = "error"], BackendError)]
       /\ UNCHANGED <<config, store, ttl, futures, lastWriter>>
    \/ /\ calls[c].op = "get_or_update_many" /\ calls[c].pc = "gather"
       /\ \E j \in calls[c].pending, r \in ExecReplies :
            calls' = [calls EXCEPT
               ![c] = LET s == gather_result(Computed(@, j, r), j, r)
                      IN  IF gathered(s) THEN get_or_update_many_set(s) ELSE s]
       /\ UNCHANGED <<config, store, ttl, futures, lastWriter>>
    \/ /\ calls[c].op = "get_or_update_many"
       /\ calls[c].pc = "storage.set_many"
       /\ SetManyReply(c, get_or_update_many_merge)
       /\ UNCHANGED config

\* Another client of the backend sets or deletes a key while a call is in
\* flight.
OtherClient ==
    /\ \E c \in Calls : calls[c].pc \notin {"idle", "done"}
    /\ \E k \in Keys, e \in Encoded \cup {Nil} :
          /\ store[k] # e
          /\ store' = [store EXCEPT ![k] = e]
          /\ ttl' = [ttl EXCEPT ![k] = FALSE]
          /\ lastWriter' = [lastWriter EXCEPT ![k] = -1]
    /\ UNCHANGED <<config, futures, calls>>

\* A faulty get_many_results: the private miss_value of get_or_update_many is
\* handed to storage.get_many.
get_many_results_sentinel(keys) == storage_get_many(keys, Sentinel)

\* BulkInterfaceMixin.get_many: storage.get_many with the miss_value of the
\* ring.
get_many_results(keys) == storage_get_many(keys, miss_value)

\* Ghost: for each key of the call, the call whose write the bulk read saw.
ObserveWriters(s) ==
    [s EXCEPT !.readFromMany = [i \in 1..Len(s.keys) |-> lastWriter[s.keys[i]]]]

\* BulkInterfaceMixin.get_many
get_many(c) ==
    \/ /\ CanCall(c)
       /\ \E args_list \in ArgsLists :
            calls' = [calls EXCEPT
               ![c] = storage_get_many_issue(BeginMany("get_many", args_list))]
       /\ UNCHANGED <<config, store, ttl, futures, lastWriter>>
    \/ /\ calls[c].op = "get_many" /\ calls[c].pc = "storage.get_many"
       /\ \/ calls' = [calls EXCEPT
               ![c] = LET s == ObserveWriters(ObserveMany(@))
                          results == get_many_results(s.keys)
                      IN  Return([s EXCEPT !.results = results], results)]
          \/ calls' = [calls EXCEPT
               ![c] = Throw([@ EXCEPT !.observed = "error"], BackendError)]
       /\ UNCHANGED <<config, store, ttl, futures, lastWriter>>

\* AioredisStorage.set_many_values returns None.
set_many_return(s) == Return(s, None)

\* BulkInterfaceMixin.set_many: one value per argument-set.
set_many(c) ==
    \/ /\ CanCall(c)
       /\ \E args_list \in ArgsLists :
            \E value_list \in [1..Len(args_list) -> Values] :
               calls' = [calls EXCEPT
                  ![c] = LET s == [BeginMany("set_many", args_list)
                                     EXCEPT !.value_list = value_list]
                         IN  storage_set_many(s, s.keys, value_list)]
       /\ UNCHANGED <<config, store, ttl, futures, lastWriter>>
    \/ /\ calls[c].op = "set_many" /\ calls[c].pc = "storage.set_many"
       /\ SetManyReply(c, set_many_return)
       /\ UNCHANGED config

(* ------------------------------- expiry -------------------------------- *)

\* A faulty touch_value: the expire command is issued whatever expire is.
touch_value_unchecked(s, key, expire) ==
    [s EXCEPT !.pc = "storage.touch", !.nTouch = @ + 1,
              !.touched = <<key, expire>>]

\* AioredisStorage.touch_value raises for a persistent cache and otherwise
\* issues the backend's expire; AiomcacheStorage.touch_value issues the
\* backend's touch.
touch_value(s, key, expire) ==
    IF adapter = "aioredis" /\ expire = None
    THEN Throw(s, TypeError)
    ELSE [s EXCEPT !.pc = "storage.touch", !.nTouch = @ + 1,
                   !.touched = <<key, expire>>]

\* CommonMixinStorage.touch: expire defaults to ring.expire_default.
storage_touch(s, key, expire) ==
    touch_value(s, key, IF expire = Ellipsis THEN expire_default ELSE expire)

\* The backend applies expire (touch): an entry it holds gets the time to
\* live; None makes the entry persistent.
expire_value(tt, key, expire) ==
    IF store[key] # Nil THEN [tt EXCEPT ![key] = expire # None] ELSE tt

\* CacheUserInterface.touch
touch(c) ==
    \/ /\ CanCall(c)
       /\ \E args \in Args :
            calls' = [calls EXCEPT
               ![c] = storage_touch(Begin("touch", args), Key(args), Ellipsis)]
       /\ UNCHANGED <<config, store, ttl, futures, lastWriter>>
    \/ /\ calls[c].op = "touch" /\ calls[c].pc = "storage.touch"
       /\ \/ /\ ttl' = expire_value(ttl, calls[c].touched[1],
                                    calls[c].touched[2])
             /\ calls' = [calls EXCEPT
                  ![c] = Return(@, store[calls[c].touched[1]] # Nil)]
          \/ /\ calls' = [calls EXCEPT ![c] = Throw(@, BackendError)]
             /\ UNCHANGED ttl
       /\ UNCHANGED <<config, store, futures, lastWriter>>

\* An expire command scheduled by set_many_values reaches the backend.
ExpireApply ==
    \E f \in BagToSet(futures) :
       /\ ttl' = expire_value(ttl, f[2], expire_default)
       /\ futures' = futures (-) SetToBag({f})
       /\ UNCHANGED <<config, store, calls, lastWriter>>

\* The backend drops an entry whose time to live has run out.
KeyExpires ==
    \E k \in Keys :
       /\ store[k] # Nil /\ ttl[k]
       /\ store' = [store EXCEPT ![k] = Nil]
       /\ ttl' = [ttl EXCEPT ![k] = FALSE]
       /\ lastWriter' = [lastWriter EXCEPT ![k] = -1]
       /\ UNCHANGED <<config, futures, calls>>

(* ------------------------------ factories ------------------------------ *)

\* The factories of the module and a factory proxy made by
\* create_factory_proxy(..., allow_asyncio=False).
SuspendingFactories == {"dict", "create_from", "aiomcache", "aioredis"}
Factories == SuspendingFactories \cup {"NonAsyncioFactoryProxy"}

\* NonAsyncioFactoryProxyBase.__call__: a coroutine function is refused
\* unless force_asyncio was passed; otherwise FactoryProxyBase.__call__ makes
\* the ring.
NonAsyncioFactoryProxyBase_call(is_coroutine, force_asyncio) ==
    IF is_coroutine /\ ~force_asyncio THEN Raise(TypeError) ELSE Ok("ring")

\* factory_doctor: the wrapped function must be a coroutine function.
factory_doctor(is_coroutine) ==
    IF ~is_coroutine THEN Raise(TypeError) ELSE Ok("ring")

\* The on_manufactured argument each factory hands to fbase.factory.
on_manufactured(factory) ==
    IF factory = "dict" THEN None ELSE "factory_doctor"

\* A factory of the module applied to a function: fbase.factory runs the
\* on_manufactured hook, if there is one, on the wire rope it made.
manufacture(factory, is_coroutine) ==
    IF on_manufactured(factory) = None THEN Ok("ring")
    ELSE factory_doctor(is_coroutine)

\* A factory is applied to a function (the decorator runs).
Wrap ==
    /\ Len(rings) < MaxWraps
    /\ \E factory \in Factories, is_coroutine \in BOOLEAN :
         \E force_asyncio \in IF factory = "NonAsyncioFactoryProxy"
                              THEN BOOLEAN ELSE {FALSE} :
            rings' = Append(rings,
               [factory |-> factory, is_coroutine |-> is_coroutine,
                force_asyncio |-> force_asyncio,
                outcome |-> IF factory = "NonAsyncioFactoryProxy"
                            THEN NonAsyncioFactoryProxyBase_call(
                                     is_coroutine, force_asyncio)
                            ELSE manufacture(factory, is_coroutine)])
    /\ UNCHANGED <<adapter, expire_default, store, ttl, futures, calls,
                   lastWriter>>

(* --------------------------- specifications --------------------------- *)

TypeStore == [Keys -> Encoded \cup {Nil}]

\* The binding of the specifications of calls: made by the aioredis or the
\* aiomcache factory around a coroutine function.
NoRings == <<>>
NoTtl == [k \in Keys |-> FALSE]

Init ==
    /\ adapter = "aioredis"
    /\ expire_default = None
    /\ rings = NoRings
    /\ ttl = NoTtl
    /\ futures = EmptyBag
    /\ store \in [Keys -> InitialEntries]
    /\ calls = [c \in Calls |-> Idle]
    /\ lastWriter = [k \in Keys |-> 0]

\* Single-item calls, interleaved at their suspension points.
Next ==
    \E c \in Calls :
        get(c) \/ update(c) \/ get_or_update(c) \/ set(c) \/ delete(c)

Spec == Init /\ [][Next]_vars

InitBulk ==
    /\ adapter \in Adapters
    /\ expire_default = None
    /\ rings = NoRings
    /\ ttl = NoTtl
    /\ futures = EmptyBag
    /\ store \in TypeStore
    /\ calls = [c \in Calls |-> Idle]
    /\ lastWriter = [k \in Keys |-> 0]

\* One call, bulk or single-item, its computations completing in any order,
\* beside another client of the same backend.
NextBulk ==
    \/ update_many(1)
    \/ get_or_update_many(1)
    \/ update(1)
    \/ get_or_update(1)
    \/ get_many(1)
    \/ set_many(1)
    \/ set(1)
    \/ OtherClient

SpecBulk == InitBulk /\ [][NextBulk]_vars

InitStore ==
    /\ adapter \in Adapters
    /\ expire_default \in {None, SomeExpire}
    /\ rings = NoRings
    /\ ttl = NoTtl
    /\ futures = EmptyBag
    /\ store \in [Keys -> InitialEntries]
    /\ calls = [c \in Calls |-> Idle]
    /\ lastWriter = [k \in Keys |-> 0]

\* A call that sets or touches, a bulk read made once it has started, and
\* the backend applying scheduled expire commands and dropping entries whose
\* time to live has run out.
NextStore ==
    \/ set_many(1)
    \/ set(1)
    \/ touch(1)
    \/ get_many(2)
    \/ ExpireApply
    \/ KeyExpires

SpecStore == InitStore /\ [][NextStore]_vars

InitBind ==
    /\ adapter = "aioredis"
    /\ expire_default = None
    /\ rings = NoRings
    /\ ttl = NoTtl
    /\ futures = EmptyBag
    /\ store = [k \in Keys |-> Nil]
    /\ calls = [c \in Calls |-> Idle]
    /\ lastWriter = [k \in Keys |-> 0]

\* Factories applied to functions, one after the other.
NextBind == Wrap

SpecBind == InitBind /\ [][NextBind]_vars

(* ------------------------------ properties ---------------------------- *)

\* The value the only computation of a single-item call returned, if any.
ComputedValues(s) == {v \in Values : <<1, v>> \in s.computed}

\* The call never changed the backend.
WroteNothing(c) ==
    /\ calls[c].nSet = 0
    /\ calls[c].nSetMany = 0
    /\ calls[c].written = <<>>
    /\ \A k \in Keys : lastWriter[k] # c

\* Calls c and d overlap: neither was made after the other had ended.
Overlap(c, d) ==
    /\ c # d
    /\ calls[c].pc # "idle" /\ calls[d].pc # "idle"
    /\ c \notin calls[d].after /\ d \notin calls[c].after

\* C1: every get_or_update call, whatever runs beside it, invokes the wrapped
\* computation at most once.  When storage.get finds the key the call returns
\* the decoded stored value with no computation and no storage.set.  When
\* storage.get reports NotFound the computation is invoked exactly once, and
\* when it has returned a value exactly one storage.set of that value under
\* the key of the call has been issued, after the computation completed, and
\* that value is what the call returns.
C1_GetOrUpdateComputesAtMostOnce ==
    \A c \in Calls : calls[c].op = "get_or_update" =>
        LET s == calls[c]
        IN  /\ s.nExec <= 1
            /\ s.nGet = 1
            /\ s.observed \in {"-", "error"} => s.nExec = 0 /\ s.nSet = 0
            /\ s.observed = "hit" =>
                 /\ s.nExec = 0
                 /\ s.nSet = 0
                 /\ s.written = <<>>
                 /\ s.pc = "done"
                 /\ s.outcome = "ok"
                 /\ s.ret = decode(s.snapshot[1])
            /\ s.observed = "miss" =>
                 /\ s.nExec = 1
                 /\ s.nSet <= 1
                 /\ (s.nSet = 1) <=> (ComputedValues(s) # {})
                 /\ s.outcome = "ok" => s.nSet = 1
                 /\ \A v \in ComputedValues(s) :
                      /\ s.written = << <<Key(s.args), encode(v)>> >>
                      /\ ~s.writeEarly
                      /\ s.outcome = "ok" => s.ret = v

\* C1 witness: a get_or_update that missed, computed once, set and returned
\* while another call on the same key overlapped it.
C1_Witness ==
    \E c, d \in Calls :
        /\ Overlap(c, d)
        /\ calls[c].op = "get_or_update"
        /\ calls[c].observed = "miss"
        /\ calls[c].outcome = "ok"
        /\ calls[c].nExec = 1 /\ calls[c].nSet = 1
        /\ calls[d].key = calls[c].key
        /\ calls[d].pc = "done"
        /\ lastWriter[calls[c].key] = d

\* C2: of two get_or_update calls with the same arguments, the second made
\* after the first returned, the first finding no entry and no other write or
\* delete reaching the key before the second reads it: the first computes
\* exactly once, the second hits, computes nothing and returns the value the
\* first stored.
C2_SecondCallHits ==
    \A c1, c2 \in Calls :
        ( /\ calls[c1].op = "get_or_update"
          /\ calls[c2].op = "get_or_update"
          /\ calls[c1].args = calls[c2].args
          /\ c1 \in calls[c2].after
          /\ calls[c1].observed = "miss"
          /\ calls[c2].observed \in {"hit", "miss"}
          /\ calls[c2].readFrom = c1 )
        => /\ calls[c1].nExec = 1
           /\ calls[c2].nExec = 0
           /\ calls[c2].observed = "hit"
           /\ calls[c2].outcome = "ok"
           /\ calls[c2].ret = calls[c1].ret
           /\ calls[c2].ret = decode(calls[c1].written[1][2])

\* C2 witness: the second of two such calls has returned from a hit.
C2_Witness ==
    \E c1, c2 \in Calls :
        /\ calls[c1].op = "get_or_update"
        /\ calls[c2].op = "get_or_update"
        /\ calls[c1].args = calls[c2].args
        /\ c1 \in calls[c2].after
        /\ calls[c1].observed = "miss"
        /\ calls[c1].snapshot = <<Nil>>
        /\ calls[c2].readFrom = c1
        /\ calls[c2].pc = "done"
        /\ calls[c2].nExec = 0
        /\ calls[c2].ret = calls[c1].ret

\* C3: a get whose key is absent from the backend returns miss_value as a
\* normal result, invokes no computation and leaves the backend unchanged.
C3_GetMissReturnsMissValue ==
    \A c \in Calls : calls[c].op = "get" =>
        /\ calls[c].nExec = 0
        /\ WroteNothing(c)
        /\ calls[c].observed = "miss" =>
             /\ calls[c].snapshot = <<Nil>>
             /\ calls[c].pc = "done"
             /\ calls[c].outcome = "ok"
             /\ calls[c].ret = miss_value

\* C3 witness: a get of an absent key has returned.
C3_Witness ==
    \E c \in Calls :
        /\ calls[c].op = "get"
        /\ calls[c].observed = "miss"
        /\ calls[c].pc = "done"
        /\ calls[c].ret = miss_value

\* C4: update invokes the computation exactly once whatever the backend
\* holds, never reads the backend, issues one storage.set of the computed
\* value only after the computation completed and returns that value; a get of
\* the same key made after the update returned, with no write or delete
\* applied to the key in between, returns the same value.
C4_UpdateRecomputesAndSets ==
    /\ \A c \in Calls : calls[c].op = "update" =>
          LET s == calls[c]
          IN  /\ s.nExec = 1
              /\ s.nGet = 0 /\ s.nGetMany = 0
              /\ s.nSet <= 1
              /\ (s.nSet = 1) <=> (ComputedValues(s) # {})
              /\ ~s.writeEarly
              /\ s.outcome = "ok" => s.nSet = 1
              /\ \A v \in ComputedValues(s) :
                   /\ s.written = << <<Key(s.args), encode(v)>> >>
                   /\ s.outcome = "ok" => s.ret = v
    /\ \A u, g \in Calls :
          ( /\ calls[u].op = "update"
            /\ calls[g].op = "get"
            /\ calls[u].args = calls[g].args
            /\ u \in calls[g].after
            /\ calls[u].outcome = "ok"
            /\ calls[g].observed \in {"hit", "miss"}
            /\ calls[g].readFrom = u )
          => /\ calls[g].outcome = "ok"
             /\ calls[g].ret = calls[u].ret

\* C4 witness: an update of a key the backend already held has returned, and
\* a later get of the key has returned its value.
C4_Witness ==
    \E u, g \in Calls :
        /\ calls[u].op = "update"
        /\ calls[g].op = "get"
        /\ calls[u].args = calls[g].args
        /\ u \in calls[g].after
        /\ calls[u].outcome = "ok"
        /\ calls[u].nExec = 1
        /\ calls[g].readFrom = u
        /\ calls[g].pc = "done"
        /\ calls[g].ret = calls[u].ret
        /\ calls[g].ret # "v1"

\* C9: when two overlapping get_or_update calls of the same key both missed
\* and both returned, each computed and set once, each returned the value its
\* own computation produced, and as long as no later write or delete reaches
\* the key the backend holds the value of the storage.set applied last.
C9_ConcurrentMissesLastWriterWins ==
    \A c, d \in Calls :
        ( /\ Overlap(c, d)
          /\ calls[c].op = "get_or_update" /\ calls[d].op = "get_or_update"
          /\ calls[c].key = calls[d].key
          /\ calls[c].observed = "miss" /\ calls[d].observed = "miss"
          /\ calls[c].outcome = "ok" /\ calls[d].outcome = "ok" )
        => /\ calls[c].nExec = 1 /\ calls[d].nExec = 1
           /\ calls[c].nSet = 1 /\ calls[d].nSet = 1
           /\ calls[c].computed = {<<1, calls[c].ret>>}
           /\ calls[d].computed = {<<1, calls[d].ret>>}
           /\ lastWriter[calls[c].key] \in {c, d} =>
                store[calls[c].key] =
                    encode(calls[lastWriter[calls[c].key]].ret)

\* C9 witness: two overlapping misses computed different values, both set,
\* both returned, and the backend holds the value set last.
C9_Witness ==
    \E c, d \in Calls :
        /\ Overlap(c, d)
        /\ calls[c].op = "get_or_update" /\ calls[d].op = "get_or_update"
        /\ calls[c].key = calls[d].key
        /\ calls[c].observed = "miss" /\ calls[d].observed = "miss"
        /\ calls[c].outcome = "ok" /\ calls[d].outcome = "ok"
        /\ calls[c].nExec = 1 /\ calls[d].nExec = 1
        /\ calls[c].ret # calls[d].ret
        /\ lastWriter[calls[c].key] = d
        /\ store[calls[c].key] = encode(calls[d].ret)

\* The indices of a bulk call whose key the backend did not hold at the bulk
\* read, and those it held.
Misses(s) == {i \in 1..Len(s.snapshot) : s.snapshot[i] = Nil}
Hits(s) == {i \in 1..Len(s.snapshot) : s.snapshot[i] # Nil}
\* The invocations of the wrapped coroutine made for index i.
TasksOf(s, i) == {j \in 1..Len(s.tasks) : s.tasks[j].index = i}
\* The invocations made with an argument-set whose key is k.
TasksOfKey(s, k) == {j \in 1..Len(s.tasks) : Key(s.tasks[j].args) = k}

\* C5: a get_or_update_many call issues exactly one storage.get_many, at most
\* one storage.set_many, and invokes the wrapped computation once per index
\* whose key was absent in the bulk read, for every hit/miss pattern.
C5_BulkCostModel ==
    \A c \in Calls : calls[c].op = "get_or_update_many" =>
        LET s == calls[c]
        IN  /\ s.nGetMany = 1
            /\ s.nGet = 0 /\ s.nSet = 0
            /\ s.nSetMany <= 1
            /\ s.snapshot = <<>> => s.nExec = 0 /\ s.nSetMany = 0
            /\ s.snapshot # <<>> => s.nExec = Cardinality(Misses(s))
            /\ s.outcome = "ok" => s.nSetMany = 1

\* C5 witness: a call over a hit and a miss has returned after one
\* computation.
C5_Witness ==
    \E c \in Calls :
        /\ calls[c].op = "get_or_update_many"
        /\ calls[c].outcome = "ok"
        /\ Hits(calls[c]) # {} /\ Misses(calls[c]) # {}
        /\ calls[c].nExec = 1
        /\ calls[c].nGetMany = 1 /\ calls[c].nSetMany = 1

\* C6: the list get_or_update_many returns is as long as args_list; at a hit
\* index it holds the decoded value the bulk read found, at a miss index the
\* value returned by the computation invoked for that index with the
\* argument-set of that index, whatever order the computations completed in.
C6_BulkResultAligned ==
    \A c \in Calls :
        (calls[c].op = "get_or_update_many" /\ calls[c].outcome = "ok") =>
            LET s == calls[c]
            IN  /\ Len(s.ret) = Len(s.args_list)
                /\ \A i \in Hits(s) : s.ret[i] = decode(s.snapshot[i])
                /\ \A i \in Misses(s) :
                     \E j \in TasksOf(s, i) :
                        /\ s.tasks[j].args = s.args_list[i]
                        /\ <<j, s.ret[i]>> \in s.computed

\* C6 witness: a miss that follows a hit in args_list got its computed value,
\* different from the value found for the hit.
C6_Witness ==
    \E c \in Calls :
        /\ calls[c].op = "get_or_update_many"
        /\ calls[c].outcome = "ok"
        /\ 1 \in Hits(calls[c]) /\ 2 \in Misses(calls[c])
        /\ calls[c].ret[1] = decode(calls[c].snapshot[1])
        /\ calls[c].ret[2] # calls[c].ret[1]
        /\ <<1, calls[c].ret[2]>> \in calls[c].computed

\* C7: the storage.set_many issued by get_or_update_many carries exactly the
\* pairs (key of a miss index, encoded value computed for that index); no key
\* that was a hit is written, and the call leaves the entries of hit keys as
\* they are.
C7_BulkWritesOnlyMisses ==
    \A c \in Calls : calls[c].op = "get_or_update_many" =>
        LET s == calls[c]
        IN  /\ \A i \in Hits(s) : lastWriter[s.keys[i]] # c
            /\ s.nSetMany = 1 =>
                 /\ Len(s.written) = Cardinality(Misses(s))
                 /\ {s.written[n] : n \in 1..Len(s.written)} =
                      {<<s.keys[i], encode(v)>> : <<i, v>> \in
                          {<<i, v>> \in Misses(s) \X Values :
                              \E j \in TasksOf(s, i) : <<j, v>> \in s.computed}}
                 /\ \A n \in 1..Len(s.written) :
                      \A i \in Hits(s) : s.written[n][1] # s.keys[i]

\* C7 witness: a call over a hit and a miss has written the miss and returned,
\* the entry of the hit untouched.
C7_Witness ==
    \E c \in Calls :
        /\ calls[c].op = "get_or_update_many"
        /\ calls[c].outcome = "ok"
        /\ Hits(calls[c]) # {} /\ Misses(calls[c]) # {}
        /\ Len(calls[c].written) = 1
        /\ \A i \in Misses(calls[c]) : lastWriter[calls[c].keys[i]] = c
        /\ \A i \in Hits(calls[c]) : lastWriter[calls[c].keys[i]] = 0

\* C8 as claimed: within one get_or_update_many call every distinct missing
\* key is computed exactly once, also when several positions derive it.
C8_OncePerMissingKey ==
    \A c \in Calls :
        (calls[c].op = "get_or_update_many" /\ calls[c].snapshot # <<>>) =>
            \A i \in Misses(calls[c]) :
                Cardinality(TasksOfKey(calls[c], calls[c].keys[i])) = 1

\* C8 amended: every miss index is computed exactly once, so a missing key
\* derived at m positions of args_list is computed m times.
C8_OncePerMissIndex ==
    \A c \in Calls :
        (calls[c].op = "get_or_update_many" /\ calls[c].snapshot # <<>>) =>
            LET s == calls[c]
            IN  /\ \A i \in Misses(s) : Cardinality(TasksOf(s, i)) = 1
                /\ \A i \in Hits(s) : TasksOf(s, i) = {}
                /\ \A k \in Keys :
                     Cardinality(TasksOfKey(s, k)) =
                       Cardinality({i \in Misses(s) : s.keys[i] = k})

\* C8 witness: two positions deriving the same absent key were both computed.
C8_Witness ==
    \E c \in Calls :
        /\ calls[c].op = "get_or_update_many"
        /\ calls[c].outcome = "ok"
        /\ Misses(calls[c]) = {1, 2}
        /\ calls[c].keys[1] = calls[c].keys[2]
        /\ calls[c].nExec = 2
        /\ Cardinality(TasksOfKey(calls[c], calls[c].keys[1])) = 2

\* The calls that compute and write.
Writers == {"update", "get_or_update", "update_many", "get_or_update_many"}

\* C10: update, get_or_update, update_many and get_or_update_many issue a
\* backend write only when every computation they invoked has completed, and
\* a call that a failing computation ended issued no write and left the
\* backend as it was.
C10_WriteAfterComputation ==
    \A c \in Calls : calls[c].op \in Writers =>
        LET s == calls[c]
        IN  /\ ~s.writeEarly
            /\ (s.nSet + s.nSetMany > 0) => s.execDone = s.nExec
            /\ s.nSet + s.nSetMany <= 1
            /\ s.outcome = "ok" => Cardinality(s.computed) = s.nExec
            /\ (s.outcome = "error" /\ s.ret = ComputeError) => WroteNothing(c)

\* C10 witness: one computation of a bulk call completed and another failed,
\* which ended the call with nothing written.
C10_Witness ==
    \E c \in Calls :
        /\ calls[c].op \in {"update_many", "get_or_update_many"}
        /\ calls[c].outcome = "error"
        /\ calls[c].ret = ComputeError
        /\ calls[c].execDone = 1
        /\ calls[c].nExec = 2
        /\ WroteNothing(c)

(* --------------------------- set_many, get_many ------------------------ *)

\* Call d is a get_many made after set_many call c had returned, over the
\* same argument-sets, and every entry it read was the one c had written: no
\* other write, delete or expiry of those keys came in between.
ReadsBack(c, d) ==
    /\ calls[c].op = "set_many" /\ calls[c].outcome = "ok"
    /\ calls[d].op = "get_many" /\ calls[d].outcome = "ok"
    /\ c \in calls[d].after
    /\ calls[d].args_list = calls[c].args_list
    /\ \A i \in 1..Len(calls[d].readFromMany) : calls[d].readFromMany[i] = c

\* The last position of args_list holding the argument-set of position i.
LastOf(args_list, i) ==
    CHOOSE j \in i..Len(args_list) :
        /\ args_list[j] = args_list[i]
        /\ \A h \in (j + 1)..Len(args_list) : args_list[h] # args_list[i]

\* C11 as claimed: on the redis adapter, set_many(args_list, value_list)
\* followed by get_many over the same argument-sets, with no other operation
\* on those keys and no expiry in between, returns a list equal to value_list
\* position by position.
C11_GetManyEqualsValueList ==
    \A c, d \in Calls :
        (adapter = "aioredis" /\ ReadsBack(c, d)) =>
            calls[d].ret = calls[c].value_list

\* C11 amended: the list returned holds at position i the value set_many was
\* given for the last position of args_list with the argument-set of i; it
\* equals value_list when no argument-set occurs twice with different values.
C11_GetManyReturnsLastSetPerKey ==
    \A c, d \in Calls :
        (adapter = "aioredis" /\ ReadsBack(c, d)) =>
            /\ Len(calls[d].ret) = Len(calls[c].value_list)
            /\ \A i \in 1..Len(calls[d].ret) :
                 calls[d].ret[i] =
                   calls[c].value_list[LastOf(calls[c].args_list, i)]

\* C11 witness: set_many of two values for the same argument-set, then
\* get_many of it twice, returned the second value at both positions.
C11_Witness ==
    \E c, d \in Calls :
        /\ adapter = "aioredis" /\ ReadsBack(c, d)
        /\ calls[c].args_list = <<"a1", "a1">>
        /\ calls[c].value_list = <<"v1", "v2">>
        /\ calls[d].ret = <<"v2", "v2">>

(* ----------------------- aiomcache: no bulk set ------------------------ *)

\* C12: on the aiomcache adapter, whose set_many_values raises
\* NotImplementedError, update_many and set_many never return a result: they
\* end with that error once storage.set_many is reached, no write of the call
\* reaches the backend, storage.set_many is called once and never again, and
\* no per-key storage.set is issued in its place.
C12_BulkSetNotImplemented ==
    \A c \in Calls :
        (adapter = "aiomcache" /\ calls[c].op \in {"update_many", "set_many"}) =>
            LET s == calls[c]
            IN  /\ s.outcome # "ok"
                /\ \A k \in Keys : lastWriter[k] # c
                /\ s.nSet = 0 /\ s.nSetMany <= 1
                /\ s.nSetMany = 1 =>
                     (s.pc = "done" /\ s.ret = NotImplementedError)
                /\ s.op = "set_many" => s.nSetMany = 1
                /\ (s.op = "update_many" /\ s.execDone = Len(s.args_list)) =>
                     s.nSetMany = 1
                /\ (s.pc = "done" /\ s.nSetMany = 0) => s.ret = ComputeError

\* C12 witness: on aiomcache an update_many over two argument-sets has
\* computed both values and ended with NotImplementedError, the backend
\* unwritten.
C12_Witness ==
    \E c \in Calls :
        /\ adapter = "aiomcache"
        /\ calls[c].op = "update_many"
        /\ calls[c].execDone = 2
        /\ calls[c].pc = "done"
        /\ calls[c].ret = NotImplementedError
        /\ Len(calls[c].written) = 2
        /\ \A k \in Keys : lastWriter[k] # c

(* ------------------------------ get_many ------------------------------- *)

\* C13: get_many derives one key per argument-set, issues exactly one
\* storage.get_many, never invokes the wrapped coroutine, writes nothing,
\* and returns a list of the input's length whose position i is the decoded
\* entry of key i when the backend held one and the miss_value of the ring
\* when it held none.
C13_GetManyReadsOnly ==
    \A c \in Calls : calls[c].op = "get_many" =>
        LET s == calls[c]
        IN  /\ s.keys = [i \in 1..Len(s.args_list) |-> Key(s.args_list[i])]
            /\ s.nGetMany = 1 /\ s.nGet = 0
            /\ s.nExec = 0 /\ s.tasks = <<>>
            /\ WroteNothing(c)
            /\ s.outcome = "ok" =>
                 /\ Len(s.ret) = Len(s.args_list)
                 /\ Len(s.snapshot) = Len(s.args_list)
                 /\ \A i \in 1..Len(s.ret) :
                      s.ret[i] = IF s.snapshot[i] # Nil
                                 THEN decode(s.snapshot[i]) ELSE miss_value

\* C13 witness: a get_many over a present and an absent key returned the
\* stored value and the miss_value, in input order.
C13_Witness ==
    \E c \in Calls :
        /\ calls[c].op = "get_many" /\ calls[c].outcome = "ok"
        /\ Len(calls[c].snapshot) = 2
        /\ calls[c].snapshot[1] = Nil
        /\ calls[c].snapshot[2] = encode("v2")
        /\ calls[c].ret = <<miss_value, "v2">>
        /\ calls[c].nGetMany = 1

(* --------------------- the private miss_value ------------------------- *)

\* The positions of a bulk call whose key held an entry decoding to None.
NoneHits(s) == {i \in 1..Len(s.snapshot) : s.snapshot[i] = encode(None)}

\* C14: the private miss_value of get_or_update_many is never in the list it
\* returns, every position that held it having received a computed value;
\* an entry that decodes to None, the miss_value the caller sees, is a hit
\* for get_or_update_many and for get_or_update: it is returned, it is not
\* computed and its key is not written.
C14_SentinelStaysPrivate ==
    \A c \in Calls :
        LET s == calls[c]
        IN  /\ (s.op = "get_or_update_many" /\ s.outcome = "ok") =>
                 /\ \A i \in 1..Len(s.ret) : s.ret[i] # Sentinel
                 /\ \A i \in Misses(s) :
                      \E j \in TasksOf(s, i) : <<j, s.ret[i]>> \in s.computed
            /\ (s.op = "get_or_update_many" /\ s.snapshot # <<>>) =>
                 \A i \in NoneHits(s) :
                    /\ TasksOf(s, i) = {}
                    /\ s.keys[i] \notin KeysOf(s.written)
                    /\ lastWriter[s.keys[i]] # c
                    /\ s.outcome = "ok" => s.ret[i] = None
            /\ (s.op = "get_or_update" /\ s.snapshot = <<encode(None)>>
                  /\ s.observed = "hit") =>
                 /\ s.nExec = 0
                 /\ WroteNothing(c)
                 /\ s.outcome = "ok" /\ s.ret = None

\* C14 witness: a get_or_update_many over an entry decoding to None and an
\* absent key computed the absent one only and returned None beside the
\* computed value.
C14_Witness ==
    \E c \in Calls :
        /\ calls[c].op = "get_or_update_many" /\ calls[c].outcome = "ok"
        /\ NoneHits(calls[c]) = {1} /\ Misses(calls[c]) = {2}
        /\ calls[c].nExec = 1
        /\ calls[c].ret = <<None, "v1">>
        /\ Len(calls[c].written) = 1

(* ------------------------------ no retry ------------------------------- *)

\* C15: no call issues a storage verb more than once, and when storage.get
\* of get_or_update or storage.get_many of get_or_update_many fails with an
\* error other than NotFound, the call ends with that error, the wrapped
\* coroutine is not invoked and nothing is written.
C15_FailFastNoRetry ==
    \A c \in Calls :
        LET s == calls[c]
        IN  /\ s.nGet <= 1 /\ s.nSet <= 1
            /\ s.nGetMany <= 1 /\ s.nSetMany <= 1
            /\ s.nGet + s.nGetMany <= 1
            /\ s.nSet + s.nSetMany <= 1
            /\ (s.op \in {"get_or_update", "get_or_update_many"}
                  /\ s.observed = "error") =>
                 /\ s.pc = "done" /\ s.outcome = "error"
                 /\ s.ret = BackendError
                 /\ s.nExec = 0 /\ s.tasks = <<>> /\ s.computed = {}
                 /\ WroteNothing(c)

\* C15 witness: the bulk read of a get_or_update_many over two absent keys
\* failed; the call ended with the backend's error after that one read.
C15_Witness ==
    \E c \in Calls :
        /\ calls[c].op = "get_or_update_many"
        /\ Len(calls[c].keys) = 2
        /\ \A i \in 1..2 : store[calls[c].keys[i]] = Nil
        /\ calls[c].observed = "error"
        /\ calls[c].ret = BackendError
        /\ calls[c].nGetMany = 1
        /\ calls[c].nExec = 0

(* ------------------------------ factories ------------------------------ *)

\* C16 as claimed: a factory applied to a function of the other flavor fails
\* when it is applied: the blocking-only factory proxy refuses a coroutine
\* function unless force_asyncio is set, and then accepts it; each suspending
\* factory (aiomcache, aioredis, create_from and the asyncio dict) refuses a
\* function that is not a coroutine function.
C16_FlavorMismatchRejected ==
    \A n \in 1..Len(rings) :
        LET w == rings[n]
        IN  /\ (w.factory = "NonAsyncioFactoryProxy" /\ w.is_coroutine) =>
                 (w.outcome = IF w.force_asyncio
                              THEN Ok("ring") ELSE Raise(TypeError))
            /\ (w.factory \in SuspendingFactories /\ ~w.is_coroutine) =>
                 w.outcome = Raise(TypeError)

(* ------------------------------ update_many ---------------------------- *)

\* The value the computation of position i of an update_many returned.
ValueOf(s, i) == CHOOSE v \in Values : <<i, v>> \in s.computed

\* C17: update_many over N argument-sets invokes the wrapped coroutine
\* exactly N times, once per position, and never reads the backend; only when
\* all N have completed does it issue its one storage.set_many, whose i-th
\* pair is the key of args_list[i] and the encoded value computed for
\* args_list[i]; it returns the N values in input order, whatever the order
\* of completion.
C17_UpdateManyComputesAllThenSets ==
    \A c \in Calls : calls[c].op = "update_many" =>
        LET s == calls[c]
            N == Len(s.args_list)
        IN  /\ s.nExec = N /\ Len(s.tasks) = N
            /\ \A i \in 1..N : /\ s.tasks[i].index = i
                               /\ s.tasks[i].args = s.args_list[i]
            /\ s.nGet = 0 /\ s.nGetMany = 0 /\ s.snapshot = <<>>
            /\ s.nSetMany <= 1 /\ s.nSet = 0
            /\ s.nSetMany = 1 =>
                 /\ s.execDone = N /\ ~s.writeEarly
                 /\ Len(s.written) = N
                 /\ \A i \in 1..N :
                      s.written[i] = <<Key(s.args_list[i]),
                                       encode(ValueOf(s, i))>>
            /\ s.execDone = N => s.nSetMany = 1
            /\ s.outcome = "ok" =>
                 /\ s.nSetMany = 1
                 /\ Len(s.ret) = N
                 /\ \A i \in 1..N : s.ret[i] = ValueOf(s, i)

\* C17 witness: an update_many over two different argument-sets whose second
\* computation completed first returned both values in input order after one
\* storage.set_many.
C17_Witness ==
    \E c \in Calls :
        /\ calls[c].op = "update_many" /\ calls[c].outcome = "ok"
        /\ calls[c].args_list = <<"a1", "a2">>
        /\ calls[c].computed = {<<1, "v1">>, <<2, "v2">>}
        /\ calls[c].completed = <<2, 1>>
        /\ calls[c].ret = <<"v1", "v2">>
        /\ calls[c].nSetMany = 1
        /\ store[Key("a1")] = encode("v1") /\ store[Key("a2")] = encode("v2")

(* ------------------------ expiration of bulk writes -------------------- *)

\* C18 as claimed: on the redis adapter, once a set_many made with a
\* non-null expiration has returned, every entry it wrote that the backend
\* still holds carries a time to live: no later operation can see such an
\* entry without one.
C18_WrittenKeysCarryExpire ==
    \A c \in Calls :
        (adapter = "aioredis" /\ expire_default # None
           /\ calls[c].op = "set_many" /\ calls[c].outcome = "ok") =>
            \A k \in KeysOf(calls[c].written) :
                (lastWriter[k] = c /\ store[k] # Nil) => ttl[k]

(* ------------------ aiomcache: get_or_update_many ---------------------- *)

\* C19: on the aiomcache adapter get_or_update_many never returns a result.
\* It issues its bulk read and invokes the wrapped coroutine for the miss
\* indices; once they have all completed (at once when every key is a hit)
\* it calls storage.set_many with the pairs of the misses, an empty list when
\* there is none, and ends with NotImplementedError.  It never writes to the
\* backend.
C19_AiomcacheGetOrUpdateManyFails ==
    \A c \in Calls :
        (adapter = "aiomcache" /\ calls[c].op = "get_or_update_many") =>
            LET s == calls[c]
                misses == Cardinality(Misses(s))
            IN  /\ s.outcome # "ok"
                /\ s.nGetMany = 1
                /\ s.nSet = 0 /\ \A k \in Keys : lastWriter[k] # c
                /\ s.snapshot # <<>> =>
                     /\ s.nExec = misses
                     /\ \A i \in Misses(s) : Cardinality(TasksOf(s, i)) = 1
                     /\ s.execDone = misses =>
                          /\ s.nSetMany = 1
                          /\ Len(s.written) = misses
                          /\ s.pc = "done"
                          /\ s.ret = NotImplementedError
                /\ s.nSetMany = 1 => s.execDone = Cardinality(Misses(s))
                /\ (s.pc = "done" /\ s.nSetMany = 0) =>
                     IF s.observed = "error" THEN s.ret = BackendError
                     ELSE s.ret = ComputeError

\* C19 witness: on aiomcache a get_or_update_many over two keys that are both
\* hits has ended with NotImplementedError after calling storage.set_many
\* with no pair, having computed nothing.
C19_Witness ==
    \E c \in Calls :
        /\ adapter = "aiomcache"
        /\ calls[c].op = "get_or_update_many"
        /\ Hits(calls[c]) = {1, 2}
        /\ calls[c].nExec = 0
        /\ calls[c].nSetMany = 1
        /\ calls[c].written = <<>>
        /\ calls[c].pc = "done"
        /\ calls[c].ret = NotImplementedError

(* -------------------------------- touch -------------------------------- *)

\* C20: touch, which passes no expiration, uses ring.expire_default.  On the
\* redis adapter, when that is None the call ends with TypeError without
\* having issued any backend command and the backend is as it was; otherwise
\* it issues exactly one backend expire, of its key with that expiration.
C20_TouchUsesDefaultExpire ==
    \A c \in Calls : calls[c].op = "touch" =>
        LET s == calls[c]
        IN  /\ s.nTouch <= 1
            /\ s.nTouch = 1 => s.touched = <<Key(s.args), expire_default>>
            /\ (adapter = "aioredis" /\ expire_default = None) =>
                 /\ s.pc = "done" /\ s.outcome = "error"
                 /\ s.ret = TypeError
                 /\ s.nTouch = 0 /\ s.touched = <<>>
                 /\ s.nGet = 0 /\ s.nGetMany = 0
                 /\ WroteNothing(c)
                 /\ ttl = NoTtl /\ futures = EmptyBag
                 /\ \A k \in Keys : lastWriter[k] = 0
            /\ (adapter = "aioredis" /\ expire_default # None) =>
                 /\ s.nTouch = 1
                 /\ (s.outcome = "ok" /\ store[s.key] # Nil
                       /\ lastWriter[s.key] = 0) => ttl[s.key]

\* C20 witness: on a redis binding without expiration, touch of a key the
\* backend holds has ended with TypeError and no backend command.
C20_Witness ==
    \E c \in Calls :
        /\ adapter = "aioredis" /\ expire_default = None
        /\ calls[c].op = "touch"
        /\ store[calls[c].key] # Nil
        /\ calls[c].ret = TypeError
        /\ calls[c].nTouch = 0

====
